---- MODULE Spec2Model ----
(***************************************************************************)
(* auditAI: the keyword-based auditor (auditor/__init__.py), the           *)
(* structured-reply auditor (auditor/analyzer.py), the platform hint table *)
(* (auditor/models.py) and the HTTP facade (app.py).                       *)
(*                                                                         *)
(* A Python string is modelled as a sequence of tokens.  A token is a      *)
(* TLA+ string standing for the run of characters it spells: a word, a     *)
(* punctuation mark, one decimal digit, a blank, or the newline.  Keywords *)
(* occur only inside one token (never across two), so substring tests and  *)
(* str.count become tests on tokens; character lengths are the sums of the *)
(* tokens' widths.                                                         *)
(***************************************************************************)
EXTENDS Integers, Sequences, FiniteSets, TLC

VARIABLES
    auditor,   \* app.py's global `auditor`: "None" or "CodeAuditor"
    pc,        \* where the request in progress stands
    args,      \* the arguments of the call in progress
    llm,       \* what the LLM call of this request did
    result     \* what the call returned or raised

vars == <<auditor, pc, args, llm, result>>

(***************************************************************************)
(* Strings                                                                 *)
(***************************************************************************)
NL == "\n"
Blank == " "
Indent == "    "
\* A token standing for a run of 1001 characters without blanks, newlines,
\* digits or keywords.
LongBlob == "<1001 chars>"

Width(t) == IF t = LongBlob THEN 1001 ELSE Len(t)

RECURSIVE CharLen(_)
CharLen(s) == IF s = <<>> THEN 0 ELSE Width(Head(s)) + CharLen(Tail(s))

IsSpace(t) == t \in {Blank, Indent, NL}

\* str.lower() on one token
Lower(t) ==
    CASE t = "Efficiency" -> "efficiency"
      [] t = "Complexity" -> "complexity"
      [] t = "Consider"   -> "consider"
      [] t = "Summary"    -> "summary"
      [] t = "SECURITY"   -> "security"
      [] t = "Cursor"     -> "cursor"
      [] t = "REPLIT"     -> "replit"
      [] OTHER            -> t

LowerStr(s) == [i \in 1..Len(s) |-> Lower(s[i])]

\* Tokens that hold a keyword as a proper substring.
Embedded ==
    { <<"issue", "issues">>, <<"recommend", "recommended">>,
      <<"import", "important">> }

\* `word in token` for a keyword and an (already lowercased or raw) token
Occurs(word, t) == t = word \/ <<word, t>> \in Embedded

\* `word in s`
InStr(word, s) == \E i \in 1..Len(s) : Occurs(word, s[i])

\* s.count(word)
CountStr(word, s) == Cardinality({i \in 1..Len(s) : Occurs(word, s[i])})

RECURSIVE SplitAcc(_, _, _)
SplitAcc(s, i, cur) ==
    IF i > Len(s) THEN <<cur>>
    ELSE IF s[i] = NL THEN <<cur>> \o SplitAcc(s, i + 1, <<>>)
    ELSE SplitAcc(s, i + 1, Append(cur, s[i]))

\* s.split('\n')
SplitLines(s) == SplitAcc(s, 1, <<>>)

RECURSIVE LStrip(_)
LStrip(s) == IF s # <<>> /\ IsSpace(Head(s)) THEN LStrip(Tail(s)) ELSE s

RECURSIVE RStrip(_)
RStrip(s) ==
    IF s # <<>> /\ IsSpace(s[Len(s)]) THEN RStrip(SubSeq(s, 1, Len(s) - 1)) ELSE s

\* s.strip()
Strip(s) == RStrip(LStrip(s))

\* len(s.split()): the number of maximal runs of non-blank tokens
WordCount(s) ==
    Cardinality({i \in 1..Len(s) :
                    ~IsSpace(s[i]) /\ (i = 1 \/ IsSpace(s[i - 1]))})

RECURSIVE JoinWith(_, _)
\* sep.join(parts)
JoinWith(sep, parts) ==
    IF parts = <<>> THEN <<>>
    ELSE IF Len(parts) = 1 THEN parts[1]
    ELSE parts[1] \o sep \o JoinWith(sep, Tail(parts))

\* parts[:n]
Take(parts, n) == SubSeq(parts, 1, IF Len(parts) < n THEN Len(parts) ELSE n)

Min(a, b) == IF a < b THEN a ELSE b
Max(a, b) == IF a > b THEN a ELSE b

(***************************************************************************)
(* auditor/models.py                                                       *)
(***************************************************************************)
REPLIT_PATTERNS ==
    << <<"unnecessary package installations">>,
       <<"overly complex file structure">>,
       <<"missing error handling for replit environment">> >>
LOVABLE_PATTERNS ==
    << <<"redundant react components">>,
       <<"inline styles instead of css">>,
       <<"missing prop validation">> >>
CURSOR_PATTERNS ==
    << <<"excessive commenting">>,
       <<"over-engineered solutions">>,
       <<"unnecessary abstractions">> >>

\* A Python value passed where a string is expected: a string (a token
\* sequence) or something that is not one (None, a number).
PyStr(s) == [isstr |-> TRUE, s |-> s]
NotAString == [isstr |-> FALSE, s |-> <<>>]

\* PlatformPatterns.get_patterns for a string platform
get_patterns(platform) ==
    LET p == LowerStr(platform) IN
    CASE p = <<"replit">>  -> REPLIT_PATTERNS
      [] p = <<"lovable">> -> LOVABLE_PATTERNS
      [] p = <<"cursor">>  -> CURSOR_PATTERNS
      [] OTHER             -> <<>>

(***************************************************************************)
(* auditor/__init__.py: the keyword variant                                *)
(***************************************************************************)
IsDigit(t) == t \in {"0", "1", "2", "3", "4", "5", "6", "7", "8", "9"}

DigitVal(t) ==
    CASE t = "0" -> 0 [] t = "1" -> 1 [] t = "2" -> 2 [] t = "3" -> 3
      [] t = "4" -> 4 [] t = "5" -> 5 [] t = "6" -> 6 [] t = "7" -> 7
      [] t = "8" -> 8 [] t = "9" -> 9

RECURSIVE DigitRun(_, _, _)
\* int() of the longest run of digits of s that starts at j, given the
\* value acc of the digits read so far: the greedy (\d+)
DigitRun(s, j, acc) ==
    IF j <= Len(s) /\ IsDigit(s[j])
    THEN DigitRun(s, j + 1, 10 * acc + DigitVal(s[j]))
    ELSE acc

\* Where `.*?(\d+)` first finds a digit when the metric name ends at i: the
\* nearest digit after i with no newline in between ('.' matches no
\* newline); 0 when there is none.
FirstDigitAfter(s, i) ==
    LET ok == {j \in (i + 1)..Len(s) :
                  /\ IsDigit(s[j])
                  /\ \A k \in (i + 1)..(j - 1) : s[k] # NL}
    IN IF ok = {} THEN 0 ELSE CHOOSE j \in ok : \A k \in ok : j <= k

\* The clamp of _extract_score (line 142): the same for every metric.
ClampScore(n) == Min(100, Max(1, n))

\* re.search(rf"{score_type}.*?(\d+)", text.lower()): the leftmost
\* occurrence of the name from which the pattern matches.
_extract_score(text, score_type, default) ==
    LET low == LowerStr(text)
        starts == {i \in 1..Len(low) :
                      Occurs(score_type, low[i]) /\ FirstDigitAfter(low, i) # 0}
    IN IF starts # {}
       THEN LET i == CHOOSE x \in starts : \A y \in starts : x <= y
            IN ClampScore(DigitRun(low, FirstDigitAfter(low, i), 0))
       ELSE default

bug_keywords == <<"bug", "issue", "problem", "error", "vulnerability">>

RECURSIVE SumCounts(_, _)
SumCounts(words, s) ==
    IF words = <<>> THEN 0
    ELSE CountStr(Head(words), s) + SumCounts(Tail(words), s)

BugCap == 10

_count_bugs(text) == Min(SumCounts(bug_keywords, LowerStr(text)), BugCap)

suggest_words == {"suggest", "recommend", "improve", "optimize", "consider"}

default_suggestions ==
    << <<"Consider adding error handling">>,
       <<"Review variable naming conventions">>,
       <<"Add documentation and comments">> >>

MinLineLen == 10
MaxSuggestions == 5
MaxRedFlags == 3

StripAll(lines) == [i \in 1..Len(lines) |-> Strip(lines[i])]

_extract_suggestions(text) ==
    LET keep(line) == /\ \E w \in suggest_words : InStr(w, LowerStr(line))
                      /\ CharLen(line) > MinLineLen
        suggestions == SelectSeq(StripAll(SplitLines(text)), keep)
    IN Take(IF suggestions = <<>> THEN default_suggestions ELSE suggestions,
            MaxSuggestions)

flag_keywords ==
    {"security", "vulnerable", "risk", "dangerous", "warning", "critical"}

_extract_red_flags(text) ==
    LET keep(line) == /\ \E w \in flag_keywords : InStr(w, LowerStr(line))
                      /\ CharLen(Strip(line)) > MinLineLen
    IN Take(StripAll(SelectSeq(SplitLines(text), keep)), MaxRedFlags)

default_summary ==
    <<"Code analysis completed. Review detailed metrics for insights.">>

SubstantialLen == 50

RECURSIVE SummaryFrom(_, _)
\* the first loop of _extract_summary, from line i on: the joined summary
\* of the first 'summary' line that has one, or <<>>
SummaryFrom(lines, i) ==
    IF i > Len(lines) THEN <<>>
    ELSE IF InStr("summary", LowerStr(lines[i]))
    THEN LET next == SubSeq(lines, i + 1, Min(i + 3, Len(lines)))
             nonempty(l) == Strip(l) # <<>>
             summary == JoinWith(<<Blank>>, StripAll(SelectSeq(next, nonempty)))
         IN IF summary # <<>> THEN summary ELSE SummaryFrom(lines, i + 1)
    ELSE SummaryFrom(lines, i + 1)

\* _extract_summary falling back to the text's first line, stripped, instead
\* of the fixed sentence
_extract_summary_first_line(text) ==
    LET lines == SplitLines(text)
        found == SummaryFrom(lines, 1)
        long == {i \in 1..Len(lines) : CharLen(Strip(lines[i])) > SubstantialLen}
    IN IF found # <<>> THEN found
       ELSE IF long # {}
       THEN Strip(lines[CHOOSE i \in long : \A j \in long : i <= j])
       ELSE Strip(lines[1])

_extract_summary(text) ==
    LET lines == SplitLines(text)
        found == SummaryFrom(lines, 1)
        long == {i \in 1..Len(lines) : CharLen(Strip(lines[i])) > SubstantialLen}
    IN IF found # <<>> THEN found
       ELSE IF long # {}
       THEN Strip(lines[CHOOSE i \in long : \A j \in long : i <= j])
       ELSE default_summary

RuntimeLen == 1000
GoodEfficiency == 70

_parse_analysis(analysis, code) ==
    LET efficiency_score == _extract_score(analysis, "efficiency", 75)
    IN [ efficiency_score |-> efficiency_score,
         complexity_score |-> _extract_score(analysis, "complexity", 5),
         bug_count |-> _count_bugs(analysis),
         optimization_suggestions |-> _extract_suggestions(analysis),
         cost_analysis |->
             [ lines_of_code |-> Len(SplitLines(code)),
               estimated_runtime |->
                   IF CharLen(code) > RuntimeLen THEN "medium" ELSE "low",
               maintainability |->
                   IF efficiency_score > GoodEfficiency
                   THEN "good" ELSE "needs_improvement" ],
         red_flags |-> _extract_red_flags(analysis),
         summary |-> _extract_summary(analysis) ]

_fallback_analysis(code, error_msg) ==
    LET nonblank(line) == Strip(line) # <<>>
        non_empty_lines == SelectSeq(SplitLines(code), nonblank)
    IN [ efficiency_score |-> 70,
         complexity_score |-> 5,
         bug_count |-> 0,
         optimization_suggestions |->
             << <<"API analysis unavailable - manual review recommended">>,
                <<"Consider code formatting and structure improvements">> >>,
         cost_analysis |->
             [ lines_of_code |-> Len(non_empty_lines),
               estimated_runtime |-> "unknown",
               maintainability |-> "requires_analysis",
               api_error |-> error_msg ],
         red_flags |-> << <<"API analysis unavailable">> >>,
         summary |->
             << "Basic analysis: ", ToString(Len(non_empty_lines)),
                " lines of code. Full analysis unavailable due to API issues." >> ]

\* _create_audit_prompt: the text sent to the LLM
_create_audit_prompt(code, platform_patterns, language) ==
    LET platform_context ==
            IF platform_patterns # <<>>
            THEN <<NL, "Also check for these platform-specific issues: ">>
                 \o JoinWith(<<", ">>, platform_patterns)
            ELSE <<>>
    IN <<NL, "Please audit this ", language,
         " code and provide a detailed analysis:", NL, NL, "CODE:", NL>>
       \o code
       \o <<NL, NL, "Please analyze for: ... 7. Overall summary", NL, NL>>
       \o platform_context
       \o <<NL, NL, "Format your response as structured analysis covering all these points.", NL>>

(***************************************************************************)
(* The state of one call                                                   *)
(***************************************************************************)
\* the argument None
PlatformNone == [isstr |-> FALSE, s |-> <<"None">>]

NoArgs ==
    [ op |-> "none", prompt |-> <<>>, code |-> <<>>, platform |-> PlatformNone,
      request |-> <<>> ]
NoLLM == [kind |-> "none", text |-> <<>>]
NoResult == [outcome |-> "none"]

\* a returned AuditResult (auditor/__init__.py) or dict (analyzer.py)
Report(r) == [outcome |-> "report", type |-> "AuditResult", value |-> r]
ReportDict(r) == [outcome |-> "report", type |-> "dict", value |-> r]
Raised(e) == [outcome |-> "raised", value |-> e]

(***************************************************************************)
(* Inputs of the keyword variant                                           *)
(***************************************************************************)
MaxLinesA == 6
MaxLinesB == 5
MaxTok == 4

\* every sequence of at most n lines of a catalogue, joined by newlines
TextsOf(catalogue, n) ==
    { JoinWith(<<NL>>, ls) : ls \in UNION {[1..k -> catalogue] : k \in 0..n} }

\* lines that the suggestion, red flag and bug scans pick up: a suggestion;
\* a red flag that is a suggestion too and names two bugs; four bugs
LinesA ==
    { <<"Consider", Blank, "caching", Blank, "results">>,
      <<Blank, "SECURITY", Blank, "risk", ":", Blank, "improve", Blank,
        "issues", Blank, "bug">>,
      <<"bug", Blank, "issues", Blank, "error", Blank, "problem">> }

\* lines that the summary scan tells apart
LinesB ==
    { <<>>,
      <<Blank, Blank>>,
      <<"Summary", ":">>,
      <<Blank, "The code reads a file and prints each of its lines in turn.">> }

\* tokens that score extraction tells apart
ScoreTokens == {"efficiency", "complexity", NL, "1", "0"}

TextsC == UNION {[1..k -> ScoreTokens] : k \in 0..MaxTok}

\* the texts of section 8 of the specification, and lines too short to keep
TextsD ==
    { <<"efficiency", ":", Blank, "4", "2", Blank, "of", Blank, "1", "0", "0">>,
      <<"Efficiency", ":", Blank, "1", "5", "0">>,
      <<"Complexity", ":", Blank, "7", NL, "Efficiency", ":", Blank, "0">>,
      <<"improve">>,
      <<"Summary", NL, "fine", NL, NL, Blank, "ok", NL, "really", NL, "no">>,
      <<"risk", NL, "recommended", ":", Blank, "a", NL, "vulnerability">> }

AnalysisTexts ==
    TextsOf(LinesA, MaxLinesA) \cup TextsOf(LinesB, MaxLinesB)
        \cup TextsC \cup TextsD

KwCodes ==
    { <<>>,
      <<"line1", NL, "line2", NL, NL>>,
      <<"x", Blank, "=", Blank, "1", NL, Blank, NL, LongBlob>> }

\* platform arguments: None, strings (the empty one too), a number
Platforms ==
    { PlatformNone, PyStr(<<>>), PyStr(<<"Cursor">>), PyStr(<<"vim">>),
      NotAString }

\* bool(platform)
Truthy(platform) == platform # PlatformNone /\ platform # PyStr(<<>>)

Reasons == { <<"Connection error.">>, <<"Request timed out.">> }

\* What client.chat.completions.create and the reading of its response do
\* in the keyword variant: the call raises; the response has no choices
\* (choices[0] raises IndexError); the message has no content (content is
\* None and analysis.split raises AttributeError); or there is a text.
KwOutcomes ==
    { [kind |-> "raise", text |-> r] : r \in Reasons }
        \cup { [kind |-> "nochoices", text |-> <<"list index out of range">>],
               [kind |-> "nocontent",
                text |-> <<"'NoneType' object has no attribute 'split'">>] }
        \cup { [kind |-> "text", text |-> t] : t \in AnalysisTexts }

(***************************************************************************)
(* CodeAuditor.audit_code of auditor/__init__.py                           *)
(***************************************************************************)
\* Lines 31-36: the hints and the prompt.  A truthy platform that has no
\* lower() raises inside the try, and the handler of line 53 answers.
KwAuditCode ==
    /\ pc = "idle"
    /\ \E code \in KwCodes, platform \in Platforms :
          IF Truthy(platform) /\ ~platform.isstr
          THEN /\ pc' = "done"
               /\ args' = [NoArgs EXCEPT !.op = "kw_audit_code", !.code = code]
               /\ llm' = NoLLM
               /\ result' = Report(_fallback_analysis(code,
                      <<"'int' object has no attribute 'lower'">>))
          ELSE /\ pc' = "kw_llm"
               /\ args' =
                     [NoArgs EXCEPT
                        !.op = "kw_audit_code", !.code = code,
                        !.prompt = _create_audit_prompt(code,
                            IF Truthy(platform) THEN get_patterns(platform.s)
                            ELSE <<>>, "python")]
               /\ llm' = NoLLM
               /\ result' = NoResult
    /\ UNCHANGED auditor

\* audit_code without the handler of lines 53-55: a failure reaches the caller
KwAuditCodeResultNoHandler(code, out) ==
    IF out.kind = "text"
    THEN Report(_parse_analysis(out.text, code))
    ELSE Raised(out.text)

\* the body of the try from the LLM call on, with its handler
KwAuditCodeResult(code, out) ==
    IF out.kind = "text"
    THEN Report(_parse_analysis(out.text, code))
    ELSE Report(_fallback_analysis(code, out.text))

\* Lines 39-55: the LLM call, the parse of its text, or the fallback.
KwLLMCall ==
    /\ pc = "kw_llm"
    /\ \E out \in KwOutcomes :
          /\ llm' = out
          /\ result' = KwAuditCodeResult(args.code, out)
    /\ pc' = "done"
    /\ args' = [args EXCEPT !.prompt = <<>>]
    /\ UNCHANGED auditor

\* The call is over; the next one starts from nothing (no state is kept).
Return ==
    /\ pc = "done"
    /\ pc' = "idle"
    /\ args' = NoArgs
    /\ llm' = NoLLM
    /\ result' = NoResult
    /\ UNCHANGED auditor

Init ==
    /\ auditor \in {"None", "CodeAuditor"}
    /\ pc = "idle"
    /\ args = NoArgs
    /\ llm = NoLLM
    /\ result = NoResult

\* the classes used on their own, without app.py
InitLib == Init /\ auditor = "None"

NextKw == KwAuditCode \/ KwLLMCall \/ Return

SpecKw == InitLib /\ [][NextKw]_vars

(***************************************************************************)
(* auditor/analyzer.py: the structured-reply variant                       *)
(***************************************************************************)
\* A value of the reply, as json.loads builds it.  `items` are the entries of
\* a list (each a string) or the characters of a string; `b` is the value of
\* a boolean and, for a number, whether it is not 0.
JAbsent == [t |-> "absent", items |-> <<>>, b |-> FALSE]
JNull == [t |-> "null", items |-> <<>>, b |-> FALSE]
JBool(b) == [t |-> "bool", items |-> <<>>, b |-> b]
JNum(nonzero) == [t |-> "num", items |-> <<>>, b |-> nonzero]
JStr(s) == [t |-> "str", items |-> s, b |-> FALSE]
JList(items) == [t |-> "list", items |-> items, b |-> FALSE]

\* a JSON object: its six keys, JAbsent for a key it does not have
JObj(fields) == [t |-> "obj", f |-> fields]
\* a reply that is valid JSON and not an object
JOther(v) == [t |-> v.t, f |-> v]

\* bool(v)
TruthyJ(v) ==
    CASE v.t = "bool" -> v.b
      [] v.t = "num"  -> v.b
      [] v.t \in {"str", "list"} -> v.items # <<>>
      [] OTHER -> FALSE

\* whether len(v) is defined
HasLen(v) == v.t \in {"str", "list"}

\* analysis.get(key, default) of a dict
Get(analysis, key, default) ==
    IF analysis.f[key] = JAbsent THEN default ELSE analysis.f[key]

\* the dict _analyze_with_ai builds itself (lines 88 and 91)
OwnAnalysis(summary) ==
    JObj([ summary |-> summary, efficiency_issues |-> JList(<<>>),
           bugs |-> JList(<<>>), overengineered |-> JAbsent,
           matches_prompt |-> JAbsent, optimizations |-> JList(<<>>) ])

\* _analyze_with_ai: what json.loads returns, whatever its type; the text
\* as the summary when it is no JSON (also when content is None, where
\* json.loads raises TypeError); the error when the call raises.
_analyze_with_ai(out) ==
    CASE out.kind = "json" -> out.value
      [] out.kind = "text" -> OwnAnalysis(JStr(out.text))
      [] out.kind = "nocontent" -> OwnAnalysis(JNull)
      [] OTHER -> OwnAnalysis(JStr(<<"Analysis failed: ">> \o out.text))

OverengineeredPenalty == 30
IssuePenalty == 10
BugPenalty == 15
MismatchPenalty == 40
LengthPenalty == 20
LengthFactor == 3

\* a default of False: a reply without the key would count as a mismatch
MatchesPromptDefaultFalse == JBool(FALSE)
\* the default of analysis.get('matches_prompt', True)
MatchesPromptDefault == JBool(TRUE)

_calculate_efficiency_score(prompt, code, analysis) ==
    LET s1 == IF TruthyJ(Get(analysis, "overengineered", JBool(FALSE)))
              THEN 100 - OverengineeredPenalty ELSE 100
        s2 == s1 - Len(Get(analysis, "efficiency_issues", JList(<<>>)).items)
                       * IssuePenalty
        s3 == s2 - Len(Get(analysis, "bugs", JList(<<>>)).items) * BugPenalty
        s4 == IF ~TruthyJ(Get(analysis, "matches_prompt", MatchesPromptDefault))
              THEN s3 - MismatchPenalty ELSE s3
        lines_of_code == Len(SplitLines(code))
        prompt_words == WordCount(prompt)
        s5 == IF lines_of_code > prompt_words * LengthFactor
              THEN s4 - LengthPenalty ELSE s4
    IN Max(1, Min(100, s5))

block_keywords == {"if", "for", "while", "def", "class"}

\* Tokens that end with a block keyword.
KeywordSuffix == { <<"if", "elif">> }

\* any(keyword in stripped ...): each keyword ends with a blank, so a token
\* that ends with the word must be followed by a blank
HasBlockKeyword(stripped) ==
    \E i \in 1..(Len(stripped) - 1) :
        /\ \E k \in block_keywords :
              stripped[i] = k \/ <<k, stripped[i]>> \in KeywordSuffix
        /\ stripped[i + 1] \in {Blank, Indent}

RECURSIVE LeadingSpaces(_)
LeadingSpaces(line) ==
    IF line # <<>> /\ Head(line) \in {Blank, Indent}
    THEN Width(Head(line)) + LeadingSpaces(Tail(line))
    ELSE 0

IndentUnit == 4
LinesPerPoint == 50
MaxComplexity == 10

RECURSIVE NestScan(_, _, _, _)
\* the loop of _calculate_complexity from line i on: max_nesting at its end
NestScan(lines, i, nesting_level, max_nesting) ==
    IF i > Len(lines) THEN max_nesting
    ELSE LET line == lines[i]
             opens == HasBlockKeyword(Strip(line))
             level == IF opens THEN nesting_level + 1 ELSE nesting_level
             deepest == IF opens THEN Max(max_nesting, level) ELSE max_nesting
             closes == \/ Strip(line) = <<>>
                       \/ LeadingSpaces(line) < level * IndentUnit
         IN NestScan(lines, i + 1,
                     IF closes THEN Max(0, level - 1) ELSE level, deepest)

RECURSIVE NestScanKeywordInLine(_, _, _, _)
\* the loop with the keywords sought in the line as it is, not in `stripped`
NestScanKeywordInLine(lines, i, nesting_level, max_nesting) ==
    IF i > Len(lines) THEN max_nesting
    ELSE LET line == lines[i]
             opens == HasBlockKeyword(line)
             level == IF opens THEN nesting_level + 1 ELSE nesting_level
             deepest == IF opens THEN Max(max_nesting, level) ELSE max_nesting
             closes == \/ Strip(line) = <<>>
                       \/ LeadingSpaces(line) < level * IndentUnit
         IN NestScanKeywordInLine(lines, i + 1,
                     IF closes THEN Max(0, level - 1) ELSE level, deepest)

_calculate_complexity_keyword_in_line(code) ==
    LET lines == SplitLines(code)
    IN Min(MaxComplexity,
           1 + NestScanKeywordInLine(lines, 1, 0, 0)
             + (Len(lines) \div LinesPerPoint))

_calculate_complexity(code) ==
    LET lines == SplitLines(code)
    IN Min(MaxComplexity,
           1 + NestScan(lines, 1, 0, 0) + (Len(lines) \div LinesPerPoint))

_count_potential_bugs(analysis) == Len(Get(analysis, "bugs", JList(<<>>)).items)

\* f"Fix: {issue}" for each issue; the issues of a string are its characters
FixEach(v) ==
    [i \in 1..Len(v.items) |->
        IF v.t = "str" THEN <<"Fix: ", v.items[i]>>
        ELSE <<"Fix: ">> \o v.items[i]]

_extract_optimizations(analysis) ==
    Take(Get(analysis, "optimizations", JList(<<>>)).items
            \o FixEach(Get(analysis, "efficiency_issues", JList(<<>>))),
         MaxSuggestions)

LongCodeFactor == 2
MaxImports == 5
ManyBugs == 3

_detect_red_flags(prompt, code, analysis) ==
    LET nonblank(line) == Strip(line) # <<>>
        prompt_words == WordCount(prompt)
        code_lines == Len(SelectSeq(SplitLines(code), nonblank))
        bug_count == Len(Get(analysis, "bugs", JList(<<>>)).items)
    IN (IF TruthyJ(Get(analysis, "overengineered", JBool(FALSE)))
        THEN << <<"Solution appears over-engineered for the given prompt">> >>
        ELSE <<>>)
       \o (IF code_lines > prompt_words * LongCodeFactor
           THEN << <<"Code is unusually long (", ToString(code_lines),
                     " lines for ", ToString(prompt_words), " word prompt)">> >>
           ELSE <<>>)
       \o (IF InStr("import", code) /\ CountStr("import", code) > MaxImports
           THEN << <<"Excessive imports may indicate unnecessary complexity">> >>
           ELSE <<>>)
       \o (IF ~TruthyJ(Get(analysis, "matches_prompt", JBool(TRUE)))
           THEN << <<"Generated code doesn't appear to solve the original request">> >>
           ELSE <<>>)
       \o (IF bug_count > ManyBugs
           THEN << <<"High number of potential bugs (", ToString(bug_count),
                     ") - may require multiple fix iterations">> >>
           ELSE <<>>)

\* round(a / b) for a >= 0 and b > 0, halves to the even neighbour
RoundDiv(a, b) ==
    LET q == a \div b
        r == a % b
    IN IF 2 * r > b \/ (2 * r = b /\ q % 2 = 1) THEN q + 1 ELSE q

\* _analyze_costs, in whole units: estimated_cost and cost_per_line in
\* 1/10000 (round(.., 4)), efficiency_ratio in 1/100 (round(.., 2)); 0.002
\* a token is 20/10000.  (A half to round needs a line count that is a
\* multiple of 8.)
_analyze_costs(prompt, code) ==
    LET prompt_complexity == WordCount(prompt)
        code_complexity == Len(SplitLines(code))
        estimated_tokens_used == prompt_complexity + code_complexity * 2
        estimated_cost == estimated_tokens_used * 20
    IN [ estimated_tokens |-> estimated_tokens_used,
         estimated_cost |-> estimated_cost,
         efficiency_ratio |-> RoundDiv(100 * prompt_complexity, code_complexity),
         cost_per_line |-> RoundDiv(estimated_cost, Max(1, code_complexity)) ]

\* The exception _calculate_efficiency_score raises on the analysis (lines
\* 98-104), "" when it raises none: analysis.get needs a dict, len() a list
\* or a string.
EfficiencyError(analysis) ==
    IF analysis.t # "obj" THEN "AttributeError"
    ELSE IF ~HasLen(Get(analysis, "efficiency_issues", JList(<<>>)))
              \/ ~HasLen(Get(analysis, "bugs", JList(<<>>)))
    THEN "TypeError"
    ELSE ""

\* The exception of `optimizations + [...]` (line 150): a list is needed.
OptimizationsError(analysis) ==
    IF Get(analysis, "optimizations", JList(<<>>)).t # "list"
    THEN "TypeError" ELSE ""

\* the dict audit_code returns (lines 29-38)
StReport(prompt, code, platform, analysis) ==
    [ efficiency_score |-> _calculate_efficiency_score(prompt, code, analysis),
      complexity_score |-> _calculate_complexity(code),
      bug_count |-> _count_potential_bugs(analysis),
      optimization_suggestions |-> _extract_optimizations(analysis),
      cost_analysis |-> _analyze_costs(prompt, code),
      red_flags |-> _detect_red_flags(prompt, code, analysis),
      summary |-> Get(analysis, "summary", JStr(<<"Analysis completed">>)),
      platform |-> platform ]

\* CodeAuditor.audit_code of analyzer.py, given what the LLM call did: the
\* dict it returns, or the first exception its statements raise (it catches
\* none): platform.lower() (line 14), the reads of the analysis (98-104),
\* code.split and prompt.split (108-109), the + of line 150.
st_audit_code(prompt, code, platform, out) ==
    LET analysis == _analyze_with_ai(out)
    IN IF ~platform.isstr THEN Raised("AttributeError")
       ELSE IF EfficiencyError(analysis) # ""
       THEN Raised(EfficiencyError(analysis))
       ELSE IF ~code.isstr \/ ~prompt.isstr THEN Raised("AttributeError")
       ELSE IF OptimizationsError(analysis) # ""
       THEN Raised(OptimizationsError(analysis))
       ELSE ReportDict(StReport(prompt.s, code.s, platform.s, analysis))

(***************************************************************************)
(* Inputs of the structured-reply variant                                  *)
(***************************************************************************)
MaxIssues == 2
MaxWords == 2
MaxCodeLines == 3

\* the list of the first n of "<name>1", "<name>2", ...
Items(name, n) == [i \in 1..n |-> <<name, ToString(i)>>]

\* how many bugs a reply lists: none, one, more than ManyBugs, more than BugCap
BugCounts == {0, 1, 4, 11}
\* how many optimizations: with the issues, fewer and more than MaxSuggestions
OptimizationCounts == {0, 4}

Flags == {JAbsent, JBool(TRUE), JBool(FALSE)}

\* replies that are objects whose keys, where present, have the documented types
WellTypedReplies ==
    { JObj([ summary |-> JStr(<<"Looks", Blank, "fine">>),
             efficiency_issues |-> ei, bugs |-> bugs, overengineered |-> ov,
             matches_prompt |-> mp, optimizations |-> opt ]) :
        ei \in {JAbsent} \cup {JList(Items("issue", n)) : n \in 0..MaxIssues},
        bugs \in {JAbsent} \cup {JList(Items("bug", n)) : n \in BugCounts},
        ov \in Flags, mp \in Flags,
        opt \in {JAbsent} \cup {JList(Items("opt", n)) : n \in OptimizationCounts} }

\* values of another type than the documented one
Odd == { JNull, JNum(TRUE), JNum(FALSE), JStr(<<"a", "b">>), JStr(<<>>),
         JBool(TRUE) }

EmptyObj ==
    [ summary |-> JAbsent, efficiency_issues |-> JAbsent, bugs |-> JAbsent,
      overengineered |-> JAbsent, matches_prompt |-> JAbsent,
      optimizations |-> JAbsent ]

\* replies that are valid JSON of another shape: not an object; an object
\* without keys; an object with one key of another type
OddReplies ==
    { JOther(v) : v \in Odd \cup {JList(<<>>), JList(Items("bug", 1))} }
        \cup { JObj(EmptyObj) }
        \cup { JObj([EmptyObj EXCEPT ![k] = v]) :
                  k \in DOMAIN EmptyObj, v \in Odd \cup {JList(Items("x", 1))} }

StValue(kind, text, value) == [kind |-> kind, text |-> text, value |-> value]

\* what the LLM call does in the structured variant, besides a JSON reply
StFailures ==
    { StValue("raise", r, JNull) : r \in Reasons }
        \cup { StValue("nochoices", <<"list index out of range">>, JNull),
               StValue("nocontent", <<>>, JNull),
               StValue("text", <<"The", Blank, "code", Blank, "is", Blank, "fine">>,
                       JNull) }

\* prompts of 0..MaxWords words
Prompts ==
    { JoinWith(<<Blank>>, [i \in 1..n |-> <<"word">>]) : n \in 0..MaxWords }

ImportLine == <<"import", Blank, "a", ";", "import", Blank, "b", ";", "import", Blank, "c">>

CodeLines ==
    { <<>>,
      <<"if", Blank, "x", ":">>,
      <<Indent, "for", Blank, "y", Blank, "in", Blank, "z", ":">>,
      ImportLine }

\* every code of at most MaxCodeLines lines of CodeLines
StCodes == TextsOf(CodeLines, MaxCodeLines)

\* an empty code, six imports on two lines, four lines with two blocks
FewCodes ==
    { <<>>,
      ImportLine \o <<NL>> \o ImportLine,
      <<"if", Blank, "x", ":", NL, Indent, "for", Blank, "y", Blank, "in",
        Blank, "z", ":", NL, Indent, Indent, "pass", NL>> }

\* lines for the nesting scan: those of CodeLines, a line that ends with a
\* keyword and a blank, a line of one blank, a block opened two levels deep
NestLines ==
    CodeLines \cup
    { <<"if", Blank>>,
      <<Blank>>,
      <<Indent, Indent, "while", Blank, "c", ":">> }

\* n lines, the k-th an `if x:` indented by k levels
Staircase(n) ==
    JoinWith(<<NL>>,
             [k \in 1..n |-> [i \in 1..k |-> Indent] \o <<"if", Blank, "x", ":">>])

\* n lines `x`, each ended by a newline
Flat(n) == JoinWith(<<>>, [k \in 1..n |-> <<"x", NL>>])

\* codes whose nesting or length reaches the clamp and the 50-line step
LongCodes ==
    { Staircase(n) : n \in {8, 9, 10, 12} }
        \cup { Flat(n) : n \in {48, 49, 50} }
        \cup { <<Indent, "if", Blank, "x", ":", NL>> \o Flat(49),
               Staircase(9) \o <<NL>> \o Flat(50) }

NestCodes == TextsOf(NestLines, MaxCodeLines) \cup LongCodes

StPlatforms == { PyStr(<<"unknown">>), PyStr(<<"REPLIT">>), NotAString }

StCall(prompt, code, platform, out) ==
    [prompt |-> prompt, code |-> code, platform |-> platform, out |-> out]

\* The calls: every well-typed reply on a few codes; every other reply and
\* every failure on a few codes; every code on a failure and on two replies;
\* a platform that is no string; every code of NestCodes on one reply.
StCalls ==
    { StCall(PyStr(p), PyStr(c), PyStr(<<"unknown">>), StValue("json", <<>>, v)) :
        p \in Prompts, c \in FewCodes, v \in WellTypedReplies }
    \cup
    { StCall(PyStr(p), PyStr(c), pl, o) :
        p \in Prompts, c \in FewCodes, pl \in StPlatforms,
        o \in StFailures \cup {StValue("json", <<>>, v) : v \in OddReplies} }
    \cup
    { StCall(PyStr(p), PyStr(c), PyStr(<<"unknown">>), o) :
        p \in Prompts, c \in StCodes,
        o \in { StValue("raise", <<"Connection error.">>, JNull),
                StValue("json", <<>>, JObj(EmptyObj)) } }
    \cup
    { StCall(PyStr(<<>>), PyStr(c), PyStr(<<"unknown">>),
             StValue("json", <<>>, JObj(EmptyObj))) : c \in NestCodes }

(***************************************************************************)
(* CodeAuditor.audit_code of auditor/analyzer.py                           *)
(***************************************************************************)
StAuditCode ==
    /\ pc = "idle"
    /\ \E c \in StCalls :
          /\ args' = [NoArgs EXCEPT !.op = "st_audit_code",
                                    !.prompt = c.prompt.s, !.code = c.code.s,
                                    !.platform = c.platform]
          /\ llm' = c.out
          /\ result' = st_audit_code(c.prompt, c.code, c.platform, c.out)
    /\ pc' = "done"
    /\ UNCHANGED auditor

NextSt == StAuditCode \/ Return

SpecSt == InitLib /\ [][NextSt]_vars

(***************************************************************************)
(* app.py                                                                  *)
(***************************************************************************)
\* The body of a POST /analyze request as request.json gives it: no JSON
\* (request.json raises, or returns None in a Flask that does not raise);
\* the object {}; an object with other keys and maybe `code`, `platform`;
\* JSON that is no object (its value in `code`).
BodyNotJson(raises) ==
    [kind |-> "notjson", code |-> JAbsent, platform |-> JAbsent, raises |-> raises]
BodyEmptyObject ==
    [kind |-> "emptyobject", code |-> JAbsent, platform |-> JAbsent, raises |-> FALSE]
BodyObject(code, platform) ==
    [kind |-> "object", code |-> code, platform |-> platform, raises |-> FALSE]
BodyOther(v) ==
    [kind |-> "other", code |-> v, platform |-> JAbsent, raises |-> FALSE]

\* the argument audit_code receives for a value of the body
AsPy(v) == IF v.t = "str" THEN PyStr(v.items) ELSE NotAString

Http(status, body) == [outcome |-> "http", status |-> status, value |-> body]

Unavailable ==
    Http(500, <<"Code auditor is not available. Check server logs for details.">>)
NoJsonData == Http(400, <<"No JSON data provided">>)
CodeRequired == Http(400, <<"Code is required">>)
AnalysisFailed(e) == Http(500, <<"Analysis failed: ", e>>)

\* Lines 59-73: auditor is analyzer.CodeAuditor (line 19), so the call of
\* line 60 binds prompt to `code` and code to `platform`, and what returns
\* is a dict; lines 63-71 read attributes, which only an AuditResult has.
CallAuditor(code, platform, out) ==
    LET r == st_audit_code(AsPy(code), AsPy(platform), PyStr(<<"unknown">>), out)
    IN IF r.outcome = "raised" THEN AnalysisFailed(r.value)
       ELSE IF r.type # "AuditResult" THEN AnalysisFailed("AttributeError")
       ELSE Http(200, [k \in {"efficiency_score", "complexity_score",
                              "bug_count", "optimization_suggestions",
                              "cost_analysis", "red_flags", "summary"}
                          |-> r.value[k]])

\* analyze() with the test of line 56 left out
analyze_no_code_check(aud, body, out) ==
    IF aud = "None" THEN Unavailable
    ELSE IF body.kind = "notjson"
    THEN (IF body.raises THEN AnalysisFailed("BadRequest") ELSE NoJsonData)
    ELSE IF body.kind = "emptyobject" THEN NoJsonData
    ELSE IF body.kind = "other"
    THEN (IF ~TruthyJ(body.code) THEN NoJsonData
          ELSE AnalysisFailed("AttributeError"))
    ELSE CallAuditor(Get([f |-> body], "code", JStr(<<>>)),
                     Get([f |-> body], "platform", JStr(<<"unknown">>)), out)

\* analyze(): the response to POST /analyze (lines 41-76)
analyze(aud, body, out) ==
    IF aud = "None" THEN Unavailable                                 \* 44-47
    ELSE IF body.kind = "notjson"                                    \* 49-51, 75
    THEN (IF body.raises THEN AnalysisFailed("BadRequest") ELSE NoJsonData)
    ELSE IF body.kind = "emptyobject" THEN NoJsonData                \* 50-51
    ELSE IF body.kind = "other"
    THEN (IF ~TruthyJ(body.code) THEN NoJsonData                     \* 50-51
          ELSE AnalysisFailed("AttributeError"))                     \* 53, 75
    ELSE LET code == Get([f |-> body], "code", JStr(<<>>))
             platform == Get([f |-> body], "platform", JStr(<<"unknown">>))
         IN IF ~TruthyJ(code) THEN CodeRequired                      \* 56-57
            ELSE CallAuditor(code, platform, out)

\* whether analyze() gets as far as the LLM call of audit_code
ReachesLLM(aud, body) ==
    /\ aud # "None"
    /\ body.kind = "object"
    /\ TruthyJ(Get([f |-> body], "code", JStr(<<>>)))

BodyCodes ==
    { JAbsent, JStr(<<>>), JNull, JNum(FALSE), JList(<<>>),
      JStr(<<"x", Blank, "=", Blank, "1">>),
      JStr(<<"if", Blank, "x", ":", NL, Indent, "pass">>),
      JNum(TRUE), JList(Items("line", 1)) }

BodyPlatforms == { JAbsent, JStr(<<"Cursor">>), JStr(<<>>), JNull }

Bodies ==
    { BodyObject(c, p) : c \in BodyCodes, p \in BodyPlatforms }
        \cup { BodyEmptyObject, BodyNotJson(TRUE), BodyNotJson(FALSE) }
        \cup { BodyOther(v) : v \in Odd \cup {JList(<<>>), JList(Items("x", 1))} }

\* what the LLM call does for a request of the facade
AppOutcomes ==
    StFailures
        \cup { StValue("json", <<>>, v) :
                  v \in { JObj(EmptyObj), JOther(JList(<<>>)),
                          JObj([EmptyObj EXCEPT
                                  !.summary = JStr(<<"Looks", Blank, "fine">>),
                                  !.bugs = JList(Items("bug", 1)),
                                  !.matches_prompt = JBool(TRUE)]) } }

\* POST /analyze
Analyze ==
    /\ pc = "idle"
    /\ \E body \in Bodies :
          \E out \in IF ReachesLLM(auditor, body) THEN AppOutcomes ELSE {NoLLM} :
             /\ args' = [NoArgs EXCEPT !.op = "analyze", !.request = body]
             /\ llm' = out
             /\ result' = analyze(auditor, body, out)
    /\ pc' = "done"
    /\ UNCHANGED auditor

\* GET /health (lines 32-39)
Health ==
    /\ pc = "idle"
    /\ \E key_present \in BOOLEAN :
          /\ (auditor # "None" => key_present)
          /\ result' = Http(200, [status |-> "healthy",
                                  auditor_available |-> auditor # "None",
                                  openai_key_present |-> key_present])
    /\ args' = [NoArgs EXCEPT !.op = "health"]
    /\ llm' = NoLLM
    /\ pc' = "done"
    /\ UNCHANGED auditor

NextApp == Analyze \/ Health \/ Return

SpecApp == Init /\ [][NextApp]_vars

Next == KwAuditCode \/ KwLLMCall \/ StAuditCode \/ Analyze \/ Health \/ Return

Spec == Init /\ [][Next]_vars

(***************************************************************************)
(* Properties of the keyword variant                                       *)
(***************************************************************************)
KwReturned == pc = "done" /\ args.op = "kw_audit_code"
KwParsed == KwReturned /\ llm.kind = "text"

\* C1: the report of _parse_analysis and of _fallback_analysis has
\* efficiency_score in 1..100 and complexity_score in 1..10, also when the
\* word 'complexity' is followed by an integer greater than 10.
C1_ScoresInRange ==
    (KwReturned /\ result.outcome = "report") =>
        /\ result.value.efficiency_score \in 1..100
        /\ result.value.complexity_score \in 1..10

\* the lines of code that hold a character that is not white space
NonBlankLineCount(code) ==
    LET lines == SplitLines(code)
    IN Cardinality({i \in 1..Len(lines) :
                       \E j \in 1..Len(lines[i]) : ~IsSpace(lines[i][j])})

\* C2: when the LLM call or a later step of audit_code raises, audit_code
\* returns the fallback report: scores 70 and 5, no bugs, two suggestions,
\* one red flag, the count of non-blank lines, and the reason of the error.
C2_FallbackOnFailure ==
    (KwReturned /\ llm.kind \in {"raise", "nochoices", "nocontent"}) =>
        /\ result.outcome = "report"
        /\ result.value.efficiency_score = 70
        /\ result.value.complexity_score = 5
        /\ result.value.bug_count = 0
        /\ Len(result.value.optimization_suggestions) = 2
        /\ Len(result.value.red_flags) = 1
        /\ result.value.cost_analysis.lines_of_code = NonBlankLineCount(args.code)
        /\ "api_error" \in DOMAIN result.value.cost_analysis
        /\ result.value.cost_analysis.api_error = llm.text

\* the LLM call raised for a code with a blank line, and the fallback
\* report counts the two other lines
C2_Witness ==
    /\ KwReturned
    /\ llm.kind = "raise"
    /\ args.code = <<"line1", NL, "line2", NL, NL>>
    /\ result.outcome = "report"
    /\ result.value.cost_analysis.lines_of_code = 2

WhitespaceOnly(text) == \A i \in 1..Len(text) : text[i] \in {Blank, NL}

\* C8: for an empty or whitespace-only analysis text _parse_analysis returns
\* the defaults: 75, 5, no bugs, the three default suggestions, no red flag
\* and the fixed summary sentence.
C8_WhitespaceDefaults ==
    (KwParsed /\ WhitespaceOnly(llm.text)) =>
        /\ result.outcome = "report"
        /\ result.value.efficiency_score = 75
        /\ result.value.complexity_score = 5
        /\ result.value.bug_count = 0
        /\ result.value.optimization_suggestions =
              << <<"Consider adding error handling">>,
                 <<"Review variable naming conventions">>,
                 <<"Add documentation and comments">> >>
        /\ result.value.red_flags = <<>>
        /\ result.value.summary =
              <<"Code analysis completed. Review detailed metrics for insights.">>

\* a text of blanks and newlines was parsed
C8_Witness ==
    /\ KwParsed
    /\ WhitespaceOnly(llm.text)
    /\ \E i \in 1..Len(llm.text) : llm.text[i] = Blank
    /\ \E i \in 1..Len(llm.text) : llm.text[i] = NL
    /\ result.outcome = "report"
    /\ result.value.bug_count = 0

\* The score the claim describes: the integer after the first occurrence of
\* the name that an integer follows (on its line), clamped to lo..hi; the
\* default when no occurrence is followed by one.
C9_Expected(text, name, lo, hi, default) ==
    LET low == LowerStr(text)
        occ == {i \in 1..Len(low) : low[i] = name /\ FirstDigitAfter(low, i) # 0}
    IN IF occ = {} THEN default
       ELSE LET i == CHOOSE x \in occ : \A y \in occ : x <= y
                n == DigitRun(low, FirstDigitAfter(low, i), 0)
            IN IF n < lo THEN lo ELSE IF n > hi THEN hi ELSE n

\* C9: score extraction returns the integer that follows the metric's name,
\* clamped to the metric's range (1..100 for efficiency, 1..10 for
\* complexity), and the default (75, 5) exactly when none follows.
C9_ScoreExtraction ==
    KwParsed =>
        /\ result.value.efficiency_score =
              C9_Expected(llm.text, "efficiency", 1, 100, 75)
        /\ result.value.complexity_score =
              C9_Expected(llm.text, "complexity", 1, 10, 5)

(***************************************************************************)
(* Properties of the structured-reply variant                              *)
(***************************************************************************)
StReturned == pc = "done" /\ args.op = "st_audit_code"

ReportFields ==
    { "efficiency_score", "complexity_score", "bug_count",
      "optimization_suggestions", "cost_analysis", "red_flags", "summary" }

\* C3: whatever the LLM call does and whatever the reply holds, audit_code
\* of analyzer.py returns a report with the seven fields and never raises.
C3_NeverRaises ==
    (StReturned /\ args.platform.isstr) =>
        /\ result.outcome = "report"
        /\ ReportFields \subseteq DOMAIN result.value

\* C6: bug_count of every returned report is in 0..10.
C6_BugCountCapped ==
    (StReturned /\ result.outcome = "report") =>
        result.value.bug_count \in 0..10

\* C7: every returned report has at most 5 suggestions, the first ones in
\* their order, and at most 3 red flags.
C7_ListsCapped ==
    (StReturned /\ llm.kind = "json" /\ result.outcome = "report") =>
        /\ Len(result.value.optimization_suggestions) <= 5
        /\ LET all == Get(llm.value, "optimizations", JList(<<>>)).items
                        \o FixEach(Get(llm.value, "efficiency_issues", JList(<<>>)))
           IN result.value.optimization_suggestions
                 = SubSeq(all, 1, Len(result.value.optimization_suggestions))
        /\ Len(result.value.red_flags) <= 3

\* a reply whose keys, where present, have the documented types
WellTyped(v) ==
    /\ v.t = "obj"
    /\ v.f.efficiency_issues.t \in {"absent", "list"}
    /\ v.f.bugs.t \in {"absent", "list"}
    /\ v.f.optimizations.t \in {"absent", "list"}
    /\ v.f.overengineered.t \in {"absent", "bool"}
    /\ v.f.matches_prompt.t \in {"absent", "bool"}

\* the score of the claim for a reply, a code of `lines` lines and a prompt
\* of `words` words
C10_Score(f, lines, words) ==
    LET raw == 100
               - (IF f.overengineered = JBool(TRUE) THEN 30 ELSE 0)
               - 10 * Len(f.efficiency_issues.items)
               - 15 * Len(f.bugs.items)
               - (IF f.matches_prompt = JBool(FALSE) THEN 40 ELSE 0)
               - (IF lines > 3 * words THEN 20 ELSE 0)
    IN IF raw < 1 THEN 1 ELSE IF raw > 100 THEN 100 ELSE raw

NewlineCount(s) == Cardinality({i \in 1..Len(s) : s[i] = NL})

\* C10: efficiency_score is 100 less 30 if overengineered, 10 an issue, 15 a
\* bug, 40 if matches_prompt is false, 20 if the code has more lines than 3
\* times the prompt's words, clamped to 1..100; a reply without the two
\* flags incurs neither the 30 nor the 40.
C10_EfficiencyFormula ==
    (StReturned /\ llm.kind = "json" /\ WellTyped(llm.value)
        /\ result.outcome = "report") =>
        result.value.efficiency_score =
            C10_Score(llm.value.f, NewlineCount(args.code) + 1,
                      WordCount(args.prompt))

\* a reply without the two flags and with one bug, for a two-word prompt and
\* a four-line code: 100 - 15
C10_Witness ==
    /\ StReturned
    /\ llm.kind = "json"
    /\ WellTyped(llm.value)
    /\ llm.value.f.overengineered = JAbsent
    /\ llm.value.f.matches_prompt = JAbsent
    /\ Len(llm.value.f.bugs.items) = 1
    /\ llm.value.f.efficiency_issues = JAbsent
    /\ WordCount(args.prompt) = 2
    /\ NewlineCount(args.code) = 3
    /\ result.outcome = "report"
    /\ result.value.efficiency_score = 85

\* a line of blanks only
BlankLine(line) == \A i \in 1..Len(line) : IsSpace(line[i])

\* The counter of the claim after each line (0 before the first), for
\* Keyword(line) saying which lines hold a keyword: one more on a keyword
\* line, then one less, not below 0, on a line that is blank or does not
\* start with 4 * counter spaces.
NestingCounter(lines, Keyword(_)) ==
    LET counter[i \in 0..Len(lines)] ==
            IF i = 0 THEN 0
            ELSE LET up == counter[i - 1] + (IF Keyword(lines[i]) THEN 1 ELSE 0)
                 IN IF BlankLine(lines[i])
                       \/ LeadingSpaces(lines[i]) < IndentUnit * up
                    THEN (IF up > 0 THEN up - 1 ELSE 0)
                    ELSE up
    IN counter

KeywordLines(lines, Keyword(_)) == {i \in 1..Len(lines) : Keyword(lines[i])}

\* the largest value the counter reaches: its value right after an increment
MaxNesting(lines, Keyword(_)) ==
    LET counter == NestingCounter(lines, Keyword)
        peaks == {0} \cup {counter[i - 1] + 1 : i \in KeywordLines(lines, Keyword)}
    IN CHOOSE m \in peaks : \A p \in peaks : p <= m

\* the statement of the claim about the code of the call, for a given
\* meaning of `a line holds a keyword`
ComplexityAsClaimed(Keyword(_)) ==
    LET lines == SplitLines(args.code)
        counter == NestingCounter(lines, Keyword)
        max_nesting == MaxNesting(lines, Keyword)
        total_lines == NewlineCount(args.code) + 1
        expected == 1 + max_nesting + (total_lines \div 50)
    IN /\ result.value.complexity_score =
              (IF expected < 10 THEN expected ELSE 10)
       /\ result.value.complexity_score \in 1..10
       /\ \A i \in 0..Len(lines) : counter[i] >= 0
       /\ max_nesting <= Cardinality(KeywordLines(lines, Keyword))

\* C11 as stated: complexity_score is min(10, 1 + max_nesting + total_lines
\* div 50) and lies in 1..10, the counter being incremented on each line
\* that contains one of 'if ', 'for ', 'while ', 'def ', 'class ' and then
\* decremented, not below 0, when the line is blank or does not start with
\* 4 * counter spaces; the counter is never negative and max_nesting is at
\* most the number of keyword lines.
C11_ComplexityKeywordInLine ==
    (StReturned /\ result.outcome = "report") =>
        ComplexityAsClaimed(HasBlockKeyword)

KeywordInStripped(line) == HasBlockKeyword(Strip(line))

\* C11 amended: the same, the keywords being sought in the line stripped of
\* its leading and trailing whitespace, so that a keyword whose blank ends
\* the line does not count.
C11_ComplexityKeywordInStripped ==
    (StReturned /\ result.outcome = "report") =>
        ComplexityAsClaimed(KeywordInStripped)

\* a block opened and kept open by its indentation, closed by the lines that
\* follow it, in a code of more than 50 lines: 1 + 1 + 51 div 50
C11_Witness ==
    /\ StReturned
    /\ result.outcome = "report"
    /\ NewlineCount(args.code) + 1 = 51
    /\ MaxNesting(SplitLines(args.code), KeywordInStripped) = 1
    /\ NestingCounter(SplitLines(args.code), KeywordInStripped)[1] = 1
    /\ NestingCounter(SplitLines(args.code), KeywordInStripped)[2] = 0
    /\ result.value.complexity_score = 3

(***************************************************************************)
(* Properties of the facade                                                *)
(***************************************************************************)
Analyzed == pc = "done" /\ args.op = "analyze"

\* the body is a JSON object without `code` or with an empty one
LacksCode(body) ==
    \/ body.kind = "emptyobject"
    \/ body.kind = "object" /\ body.code \in {JAbsent, JStr(<<>>)}

\* C4: with an initialized auditor, a request with a non-empty code is
\* answered with the seven fields of the report, not with a server error.
C4_AnalyzeSucceeds ==
    (Analyzed /\ auditor = "CodeAuditor" /\ args.request.kind = "object"
        /\ args.request.code.t = "str" /\ args.request.code.items # <<>>
        /\ args.request.platform.t \in {"absent", "str"}
        /\ llm.kind = "json" /\ WellTyped(llm.value)) =>
        /\ result.status = 200
        /\ DOMAIN result.value = ReportFields

\* C5 as claimed: a request without code is answered 400 in every state,
\* and the 500 of an unavailable auditor only goes to requests with a code.
C5_MissingCodeAlways400 ==
    Analyzed =>
        /\ LacksCode(args.request) => result.status = 400
        /\ result = Unavailable => ~LacksCode(args.request)

\* C5 as the code has it: with an initialized auditor a request whose JSON
\* body is an object without code, or with an empty one, is answered 400;
\* with no auditor every request is answered with the 500 of line 45.
C5_MissingCode400WhenAvailable ==
    Analyzed =>
        /\ (auditor = "CodeAuditor" /\ LacksCode(args.request))
              => result.status = 400
        /\ auditor = "None" => result = Unavailable

\* an initialized auditor and a body {"code": "", "platform": "Cursor"}
C5_Witness ==
    /\ Analyzed
    /\ auditor = "CodeAuditor"
    /\ args.request = BodyObject(JStr(<<>>), JStr(<<"Cursor">>))
    /\ result.status = 400

====
